---- MODULE Spec2Model ----
(***************************************************************************)
(* The iterative research workflow of langchain-demo, in its two variants: *)
(*   - the graph variant  (src/src/research_graph1.ts): a StateGraph with  *)
(*     the nodes planner, searcher, summarizer, should_continue and        *)
(*     report_writer, run by app.stream under recursionLimit 10;           *)
(*   - the agent variant  (src/src/research_graph.ts): five DynamicTools   *)
(*     that read a serialized ResearchState, update it and store it in the *)
(*     process-wide currentResearchState, driven by an AgentExecutor.      *)
(*                                                                         *)
(* Text is modelled as a sequence of characters.  A character is a TLA+    *)
(* string; the characters the code treats specially (quote, backslash,     *)
(* newline, blank, comma, the letters of "continue") are themselves, and a *)
(* longer string such as "topic" stands for a fixed run of ordinary        *)
(* characters of a template or a JSON key.                                 *)
(***************************************************************************)
EXTENDS Integers, Sequences, FiniteSets

\* The element of a singleton set.  The({e(x) : x \in {v}}) is e(v) with v
\* evaluated once, however often e uses it.
The(S) == CHOOSE y \in S : TRUE

QUOTE == "\""
BSLASH == "\\"
NL == "\n"
SP == " "
COMMA == ","

(***************************************************************************)
(* String.prototype helpers used by the steps.                             *)
(***************************************************************************)
Whitespace == {SP, NL}

RECURSIVE TrimStart(_)
TrimStart(s) ==
  IF s # <<>> /\ Head(s) \in Whitespace THEN TrimStart(Tail(s)) ELSE s

RECURSIVE TrimEnd(_)
TrimEnd(s) ==
  IF s # <<>> /\ s[Len(s)] \in Whitespace
    THEN TrimEnd(SubSeq(s, 1, Len(s) - 1))
    ELSE s

\* plan.trim(), newSummary.trim(), report.trim(), keyword.trim()
Trim(s) == TrimEnd(TrimStart(s))

\* index of the first occurrence of character c in s at or after i, 0 if none
RECURSIVE IndexOf(_, _, _)
IndexOf(s, c, i) ==
  IF i > Len(s) THEN 0
  ELSE IF s[i] = c THEN i
  ELSE IndexOf(s, c, i + 1)

\* plan.split(','): the empty string splits into one empty term
RECURSIVE Split(_, _)
Split(s, c) ==
  The({IF i = 0 THEN <<s>>
       ELSE <<SubSeq(s, 1, i - 1)>>
            \o The({Split(rest, c) : rest \in {SubSeq(s, i + 1, Len(s))}})
       : i \in {IndexOf(s, c, 1)}})

\* ss[i] sep ss[i+1] sep ... of a sequence of texts
RECURSIVE JoinFrom(_, _, _)
JoinFrom(ss, sep, i) ==
  IF i > Len(ss) THEN <<>>
  ELSE IF i = Len(ss) THEN ss[i]
  ELSE ss[i] \o sep \o JoinFrom(ss, sep, i + 1)

\* array.join(sep)
Join(ss, sep) == The({JoinFrom(x, sep, 1) : x \in {ss}})

UpperCase == <<"C", "O", "N", "T", "I", "U", "E">>
LowerCase == <<"c", "o", "n", "t", "i", "u", "e">>

ToLowerChar(c) ==
  IF \E k \in 1..Len(UpperCase) : UpperCase[k] = c
    THEN LowerCase[CHOOSE k \in 1..Len(UpperCase) : UpperCase[k] = c]
    ELSE c

\* decision.toLowerCase()
ToLowerCase(s) == [k \in 1..Len(s) |-> ToLowerChar(s[k])]

\* s.includes(p)
Includes(s, p) ==
  \E k \in 0..(Len(s) - Len(p)) : SubSeq(s, k + 1, k + Len(p)) = p

ContinueWord == <<"c", "o", "n", "t", "i", "n", "u", "e">>

(***************************************************************************)
(* ResearchState (agent variant) and its JSON transport.                   *)
(***************************************************************************)
\* new ResearchState(topic)
NewResearchState(topic) ==
  [topic |-> topic, plan |-> <<>>, searchResults |-> <<>>, summary |-> <<>>,
   report |-> <<>>, iterationCount |-> 0, isComplete |-> FALSE]

DigitChars == <<"0", "1", "2", "3", "4", "5", "6", "7", "8", "9">>

\* the decimal digits JSON.stringify writes for a non-negative integer
RECURSIVE NumberText(_)
NumberText(n) ==
  IF n < 10 THEN <<DigitChars[n + 1]>>
  ELSE NumberText(n \div 10) \o <<DigitChars[(n % 10) + 1]>>

\* an escaping that leaves a backslash as it is
JsonEscapeCharKeepsBackslash(c) ==
  IF c = QUOTE THEN <<BSLASH, QUOTE>>
  ELSE IF c = NL THEN <<BSLASH, "n">>
  ELSE <<c>>

\* JSON.stringify's escaping of one character of a string
JsonEscapeChar(c) ==
  IF c = QUOTE THEN <<BSLASH, QUOTE>>
  ELSE IF c = BSLASH THEN <<BSLASH, BSLASH>>
  ELSE IF c = NL THEN <<BSLASH, "n">>
  ELSE <<c>>

\* the escaped text of s[lo..hi], halving the range
RECURSIVE JsonEscapeRange(_, _, _)
JsonEscapeRange(s, lo, hi) ==
  IF lo > hi THEN <<>>
  ELSE IF lo = hi THEN JsonEscapeChar(s[lo])
  ELSE The({JsonEscapeRange(s, lo, mid) \o JsonEscapeRange(s, mid + 1, hi)
            : mid \in {(lo + hi) \div 2}})

JsonEscape(s) == The({JsonEscapeRange(x, 1, Len(x)) : x \in {s}})

JsonString(s) == <<QUOTE>> \o JsonEscape(s) \o <<QUOTE>>

\* a string array under JSON.stringify(..., null, 2), nested one level deep
JsonStringArray(ss) ==
  IF ss = <<>> THEN <<"[", "]">>
  ELSE <<"[">>
       \o Join([k \in 1..Len(ss) |-> <<NL, SP, SP, SP, SP>> \o JsonString(ss[k])],
               <<COMMA>>)
       \o <<NL, SP, SP, "]">>

JsonMember(key, valueText) ==
  <<NL, SP, SP>> \o JsonString(<<key>>) \o <<":", SP>> \o valueText

\* ResearchState.toString
ToString(st) ==
  <<"{">>
  \o Join(<<JsonMember("topic", JsonString(st.topic)),
            JsonMember("plan", JsonString(st.plan)),
            JsonMember("searchResults", JsonStringArray(st.searchResults)),
            JsonMember("summary", JsonString(st.summary)),
            JsonMember("report", JsonString(st.report)),
            JsonMember("iterationCount", NumberText(st.iterationCount)),
            JsonMember("isComplete",
                       IF st.isComplete THEN <<"true">> ELSE <<"false">>)>>,
          <<COMMA>>)
  \o <<NL, "}">>

(***************************************************************************)
(* JSON.parse, as far as fromString and the tools use it: objects, arrays, *)
(* strings with their escapes, non-negative integers, true, false, null,   *)
(* and white space between tokens.  The text is first cut into tokens (a   *)
(* string literal with its escapes decoded, a white-space character, or    *)
(* any other character), then the tokens are parsed.  A parsed value is a  *)
(* record tagged by t; a parse result is [ok, v, next], next being the     *)
(* index of the token after v.                                             *)
(***************************************************************************)
Tok(k, c, s) == [k |-> k, c |-> c, s |-> s]
Frag(s) == Tok("str", "", s)

LexResult(end, toks) == [end |-> end, toks |-> toks, err |-> FALSE]
LexError == [end |-> "out", toks |-> <<>>, err |-> TRUE]

\* one character read in state st: "out" of a string literal, "in" one, or
\* in one just after a backslash ("esc")
LexOne(c, st) ==
  IF st = "out" THEN
    IF c = QUOTE THEN LexResult("in", <<Frag(<<>>)>>)
    ELSE IF c \in Whitespace THEN LexResult("out", <<Tok("ws", c, <<>>)>>)
    ELSE LexResult("out", <<Tok("sym", c, <<>>)>>)
  ELSE IF st = "in" THEN
    IF c = QUOTE THEN LexResult("out", <<Frag(<<>>)>>)
    ELSE IF c = BSLASH THEN LexResult("esc", <<Frag(<<>>)>>)
    ELSE IF c = NL THEN LexError
    ELSE LexResult("in", <<Frag(<<c>>)>>)
  ELSE
    IF c = QUOTE THEN LexResult("in", <<Frag(<<QUOTE>>)>>)
    ELSE IF c = BSLASH THEN LexResult("in", <<Frag(<<BSLASH>>)>>)
    ELSE IF c = "n" THEN LexResult("in", <<Frag(<<NL>>)>>)
    ELSE LexError

\* the tokens of l followed by those of r, r read from the state l ended in:
\* read from inside a literal, r's first token is the rest of l's last
LexMerge(l, r) ==
  IF r.err THEN LexError
  ELSE IF l.end = "out" THEN LexResult(r.end, l.toks \o r.toks)
  ELSE LexResult(r.end,
         SubSeq(l.toks, 1, Len(l.toks) - 1)
         \o <<Frag(l.toks[Len(l.toks)].s \o r.toks[1].s)>>
         \o Tail(r.toks))

\* the tokens of s[lo..hi] read from state st, halving the range
RECURSIVE Lex(_, _, _, _)
Lex(s, lo, hi, st) ==
  IF lo > hi THEN LexResult(st, IF st = "out" THEN <<>> ELSE <<Frag(<<>>)>>)
  ELSE IF lo = hi THEN LexOne(s[lo], st)
  ELSE
    The({The({IF l.err THEN LexError
              ELSE The({LexMerge(l, r) : r \in {Lex(s, mid + 1, hi, l.end)}})
              : l \in {Lex(s, lo, mid, st)}})
         : mid \in {(lo + hi) \div 2}})

JValue(t, s, n, b, a, m) == [t |-> t, s |-> s, n |-> n, b |-> b, a |-> a, m |-> m]
JNull == JValue("null", <<>>, 0, FALSE, <<>>, <<>>)
JStr(s) == JValue("str", s, 0, FALSE, <<>>, <<>>)
JNum(n) == JValue("num", <<>>, n, FALSE, <<>>, <<>>)
JBool(b) == JValue("bool", <<>>, 0, b, <<>>, <<>>)
JArr(a) == JValue("arr", <<>>, 0, FALSE, a, <<>>)
JObj(m) == JValue("obj", <<>>, 0, FALSE, <<>>, m)

JsonFail == [ok |-> FALSE, v |-> JNull, next |-> 0]
JsonOk(v, next) == [ok |-> TRUE, v |-> v, next |-> next]

RECURSIVE SkipWs(_, _)
SkipWs(ts, i) ==
  IF i <= Len(ts) /\ ts[i].k = "ws" THEN SkipWs(ts, i + 1) ELSE i

IsSym(ts, i, c) == i <= Len(ts) /\ ts[i].k = "sym" /\ ts[i].c = c

IsDigit(c) == \E d \in 1..10 : DigitChars[d] = c
DigitValue(c) == (CHOOSE d \in 1..10 : DigitChars[d] = c) - 1

RECURSIVE ParseNumberAt(_, _, _)
ParseNumberAt(ts, i, acc) ==
  IF i <= Len(ts) /\ ts[i].k = "sym" /\ IsDigit(ts[i].c)
    THEN The({ParseNumberAt(ts, i + 1, n) : n \in {10 * acc + DigitValue(ts[i].c)}})
    ELSE JsonOk(JNum(acc), i)

RECURSIVE ParseValue(_, _)
RECURSIVE ParseElements(_, _, _)
RECURSIVE ParseMembers(_, _, _)

\* the value that starts at token i (white space already skipped)
ParseValue(ts, i) ==
  IF i > Len(ts) THEN JsonFail
  ELSE IF ts[i].k = "str" THEN JsonOk(JStr(ts[i].s), i + 1)
  ELSE IF ts[i].k # "sym" THEN JsonFail
  ELSE IF ts[i].c = "true" THEN JsonOk(JBool(TRUE), i + 1)
  ELSE IF ts[i].c = "false" THEN JsonOk(JBool(FALSE), i + 1)
  ELSE IF ts[i].c = "null" THEN JsonOk(JNull, i + 1)
  ELSE IF IsDigit(ts[i].c) THEN
    IF ts[i].c = "0" /\ i + 1 <= Len(ts) /\ ts[i + 1].k = "sym" /\ IsDigit(ts[i + 1].c)
      THEN JsonFail
      ELSE ParseNumberAt(ts, i, 0)
  ELSE IF ts[i].c = "[" THEN
    The({IF IsSym(ts, j, "]") THEN JsonOk(JArr(<<>>), j + 1)
         ELSE ParseElements(ts, j, <<>>)
         : j \in {SkipWs(ts, i + 1)}})
  ELSE IF ts[i].c = "{" THEN
    The({IF IsSym(ts, j, "}") THEN JsonOk(JObj(<<>>), j + 1)
         ELSE ParseMembers(ts, j, <<>>)
         : j \in {SkipWs(ts, i + 1)}})
  ELSE JsonFail

\* after element e of an array, whose earlier elements are acc: "]" or "," at j
AfterElement(ts, acc, e, j) ==
  IF IsSym(ts, j, "]") THEN JsonOk(JArr(acc), j + 1)
  ELSE IF IsSym(ts, j, COMMA)
    THEN The({ParseElements(ts, n, acc) : n \in {SkipWs(ts, j + 1)}})
  ELSE JsonFail

\* the elements of an array from token i, up to and including "]"
ParseElements(ts, i, acc) ==
  The({IF ~e.ok THEN JsonFail
       ELSE The({AfterElement(ts, all, e, j)
                 : all \in {Append(acc, e.v)}, j \in {SkipWs(ts, e.next)}})
       : e \in {ParseValue(ts, i)}})

\* after member e of an object, whose earlier members are acc: "}" or "," at j
AfterMember(ts, acc, e, j) ==
  IF IsSym(ts, j, "}") THEN JsonOk(JObj(acc), j + 1)
  ELSE IF IsSym(ts, j, COMMA)
    THEN The({ParseMembers(ts, n, acc) : n \in {SkipWs(ts, j + 1)}})
  ELSE JsonFail

\* the value of the member whose key is token i and whose ":" is token c
MemberValue(ts, i, c, acc) ==
  IF ~IsSym(ts, c, ":") THEN JsonFail
  ELSE The({IF ~e.ok THEN JsonFail
            ELSE The({AfterMember(ts, all, e, j)
                      : all \in {Append(acc, [k |-> ts[i].s, v |-> e.v])},
                        j \in {SkipWs(ts, e.next)}})
            : e \in {The({ParseValue(ts, n) : n \in {SkipWs(ts, c + 1)}})}})

\* the members of an object from token i, up to and including "}"
ParseMembers(ts, i, acc) ==
  IF i > Len(ts) \/ ts[i].k # "str" THEN JsonFail
  ELSE The({MemberValue(ts, i, c, acc) : c \in {SkipWs(ts, i + 1)}})

\* the value the tokens lx spell, if they spell one and nothing more
ParseTokens(lx) ==
  IF lx.err \/ lx.end # "out" THEN JsonFail
  ELSE The({IF r.ok /\ SkipWs(lx.toks, r.next) = Len(lx.toks) + 1 THEN r ELSE JsonFail
            : r \in {The({ParseValue(lx.toks, n) : n \in {SkipWs(lx.toks, 1)}})}})

\* JSON.parse(text): ok is FALSE where JSON.parse throws a SyntaxError
JsonParse(text) ==
  The({ParseTokens(lx) : lx \in {The({Lex(x, 1, Len(x), "out") : x \in {text}})}})

HasKey(obj, key) == \E k \in 1..Len(obj.m) : obj.m[k].k = <<key>>

\* obj[key] of a parsed object; a repeated key keeps its last value
GetKey(obj, key) ==
  obj.m[CHOOSE k \in 1..Len(obj.m) :
          /\ obj.m[k].k = <<key>>
          /\ \A l \in (k + 1)..Len(obj.m) : obj.m[l].k # <<key>>].v

\* a parsed value as the field value Object.assign stores
FieldValue(v) ==
  CASE v.t = "str" -> v.s
    [] v.t = "num" -> v.n
    [] v.t = "bool" -> v.b
    [] v.t = "arr" -> [k \in 1..Len(v.a) |-> v.a[k].s]
    [] OTHER -> <<"null">>

\* how a template renders a property that is undefined
Undefined == <<"undefined">>

Assigned(obj, key, default) ==
  IF obj.t = "obj" /\ HasKey(obj, key) THEN FieldValue(GetKey(obj, key)) ELSE default

\* new ResearchState(data.topic) and Object.assign(state, data)
AssignAll(data) ==
  The({[f \in DOMAIN made |-> Assigned(data, f, made[f])]
       : made \in {NewResearchState(Assigned(data, "topic", Undefined))}})

\* ResearchState.fromString: ok is FALSE where it throws
FromString(stateStr) ==
  The({IF ~p.ok \/ p.v.t = "null"
         THEN [ok |-> FALSE, st |-> NewResearchState(<<>>)]
         ELSE [ok |-> TRUE, st |-> AssignAll(p.v)]
       : p \in {JsonParse(stateStr)}})

(***************************************************************************)
(* Bounds of the model and constants of the program.                       *)
(***************************************************************************)
\* the Evaluator's hard cap on iterationCount
MaxRounds == 3
\* app.stream(initialState, { recursionLimit: 10 })
RecursionLimit == 10
\* new AgentExecutor({ ..., maxIterations: 15 })
AgentMaxIterations == 15
\* bound: tool calls the agent of a run on its own makes
MaxToolCalls == 4
\* bound: tool calls the agents of two concurrent runs make together
MaxConcurrentCalls == 2
\* bound: length of the texts the codec is applied to
MaxTextLen == 2
\* bound: largest iterationCount the codec is applied to
MaxCodecCount == 10
\* bound: terms of the plans a tool on its own is handed
MaxPlanTerms == 5
\* bound: tool calls of a run whose handed blobs are recorded
MaxReplayCalls == 3

\* const researchTopic = ...
researchTopic == <<"T">>
\* the topic of a second, concurrent runResearch call
otherTopic == <<"U", QUOTE>>

Runs == {1, 2}
RunTopic(r) == IF r = 1 THEN researchTopic ELSE otherTopic

(***************************************************************************)
(* What deepseekChat.invoke can answer.  An outcome is [ok, text]: ok is   *)
(* FALSE when the call rejects.                                            *)
(***************************************************************************)
PlanResponses == {<<SP, "k1", COMMA, SP, "k2", NL>>, <<"k3">>, <<>>}
SummaryResponses == {<<"S1", NL>>, <<SP>>}
EvalResponses ==
  {ContinueWord, <<QUOTE, "C", "O", "N", "T", "I", "N", "U", "E", QUOTE>>,
   <<"finish">>, <<>>}
ReportResponses == {<<"#", SP, "Report", NL>>, <<SP, NL>>}

Failure == [ok |-> FALSE, text |-> <<>>]
Outcomes(responses) == {[ok |-> TRUE, text |-> x] : x \in responses} \cup {Failure}

(***************************************************************************)
(* The graph variant: the nodes of research_graph1.ts.  Its state has the  *)
(* optional keys searchResults and report; keys holds those present.       *)
(***************************************************************************)
\* const initialState: ResearchState = { topic, plan: "", summary: "", iterationCount: 0 }
initialState ==
  [topic |-> researchTopic, plan |-> <<>>, searchResults |-> <<>>,
   summary |-> <<>>, report |-> <<>>, iterationCount |-> 0, keys |-> {}]

\* a Planner that counts a round twice
plannerNodeCountsTwice(state, response) ==
  [state EXCEPT !.plan = Trim(response), !.iterationCount = @ + 2]

plannerNode(state, response) ==
  [state EXCEPT !.plan = Trim(response), !.iterationCount = @ + 1]

\* one mock result of searcherNode
mockResult(keyword) == <<"About", QUOTE>> \o keyword \o <<QUOTE, "MockResult">>

\* a Searcher that adds its results to those of the earlier rounds
searcherNodeAppends(state) ==
  The({[state EXCEPT
          !.searchResults = @ \o [k \in 1..Len(terms) |-> mockResult(Trim(terms[k]))],
          !.keys = @ \cup {"searchResults"}]
       : terms \in {Split(state.plan, COMMA)}})

\* a Searcher that finds nothing for the empty plan
searcherNodeSkipsEmptyPlan(state) ==
  The({[state EXCEPT
          !.searchResults =
            IF state.plan = <<>> THEN <<>>
            ELSE [k \in 1..Len(terms) |-> mockResult(Trim(terms[k]))],
          !.keys = @ \cup {"searchResults"}]
       : terms \in {Split(state.plan, COMMA)}})

searcherNode(state) ==
  The({[state EXCEPT
          !.searchResults = [k \in 1..Len(terms) |-> mockResult(Trim(terms[k]))],
          !.keys = @ \cup {"searchResults"}]
       : terms \in {Split(state.plan, COMMA)}})

summarizerNode(state, response) == [state EXCEPT !.summary = Trim(response)]

reportWriterNode(state, response) ==
  [state EXCEPT !.report = Trim(response), !.keys = @ \cup {"report"}]

\* whether shouldContinueNode answers without asking the model
shouldContinueCapped(state) == state.iterationCount >= MaxRounds

shouldContinueNode(state, response) ==
  IF shouldContinueCapped(state) THEN "end"
  ELSE IF Includes(ToLowerCase(response), ContinueWord) THEN "continue"
  ELSE "end"

\* edges that lead from the summarizer straight to the report
nextNodeSkipsDecision(node, decision) ==
  CASE node = "planner" -> "searcher"
    [] node = "searcher" -> "summarizer"
    [] node = "summarizer" -> "report_writer"
    [] node = "should_continue" ->
         IF decision = "continue" THEN "planner" ELSE "report_writer"
    [] node = "report_writer" -> "END"

\* workflow.addEdge / addConditionalEdges: the node that follows
nextNode(node, decision) ==
  CASE node = "planner" -> "searcher"
    [] node = "searcher" -> "summarizer"
    [] node = "summarizer" -> "should_continue"
    [] node = "should_continue" ->
         IF decision = "continue" THEN "planner" ELSE "report_writer"
    [] node = "report_writer" -> "END"

(***************************************************************************)
(* The agent variant: the tools of research_graph.ts.  Every tool starts   *)
(* by reading a state from its input text (ReadInput); a tool is applied   *)
(* to f, what that reading gave, and to the outcome of its inference call, *)
(* and yields                                                              *)
(*   threw    - the tool rejected (fromString threw);                      *)
(*   wrote    - it assigned currentResearchState, to st;                   *)
(*   seen     - the iterationCount of the state it read from its input;    *)
(*   asked    - it called deepseekChat.invoke;                             *)
(*   decision - the Evaluator's label, "none" for the other tools;         *)
(*   ret      - the text it returned to the agent;                         *)
(*   results  - the number of searchResults of the state it read.          *)
(***************************************************************************)
\* String(x) of a parsed value, as JSON.parse coerces a non-string argument
CoerceToText(v) ==
  CASE v.t = "str" -> v.s
    [] v.t = "num" -> NumberText(v.n)
    [] v.t = "bool" -> IF v.b THEN <<"true">> ELSE <<"false">>
    [] v.t = "arr" -> Join([k \in 1..Len(v.a) |-> v.a[k].s], <<COMMA>>)
    [] v.t = "obj" -> <<"[object Object]">>
    [] OTHER -> <<"null">>

Truthy(v) ==
  CASE v.t = "str" -> v.s # <<>>
    [] v.t = "num" -> v.n # 0
    [] v.t = "bool" -> v.b
    [] v.t = "null" -> FALSE
    [] OTHER -> TRUE

\* a reading that hands a wrapper object on as it is
UnwrapInputKeepsWrapper(input) == input

\* let stateJson = input; try { parsed = JSON.parse(input); if (parsed.input) ... } catch {}
UnwrapInput(input) ==
  The({IF p.ok /\ p.v.t = "obj" /\ HasKey(p.v, "input") /\ Truthy(GetKey(p.v, "input"))
         THEN CoerceToText(GetKey(p.v, "input"))
         ELSE input
       : p \in {JsonParse(input)}})

\* ResearchState.fromString(stateJson) of a tool's input
ReadInput(input) == The({FromString(x) : x \in {UnwrapInput(input)}})

ToolResult(threw, wrote, seen, st, asked, decision, ret, results) ==
  [threw |-> threw, wrote |-> wrote, seen |-> seen, st |-> st, asked |-> asked,
   decision |-> decision, ret |-> ret, results |-> results]

ToolThrew == ToolResult(TRUE, FALSE, 0, NewResearchState(<<>>), FALSE, "none", <<>>, 0)

fallbackPlan(topic) ==
  <<"About", QUOTE>> \o topic
  \o <<QUOTE, "BasicResearch", COMMA, "TechAnalysis", COMMA, "Prospects">>

\* a Planner that also marks the research complete
plannerToolMarksComplete(f, outcome) ==
  IF ~f.ok THEN ToolThrew
  ELSE ToolResult(FALSE, TRUE, f.st.iterationCount,
         [f.st EXCEPT !.plan = Trim(outcome.text), !.iterationCount = @ + 1,
                      !.isComplete = TRUE],
         TRUE, "none", <<"PlanMade">>, Len(f.st.searchResults))

plannerTool(f, outcome) ==
  IF ~f.ok THEN ToolThrew
  ELSE
    LET plan == IF outcome.ok THEN Trim(outcome.text) ELSE fallbackPlan(f.st.topic)
        st == [f.st EXCEPT !.plan = plan, !.iterationCount = @ + 1]
    IN  ToolResult(FALSE, TRUE, f.st.iterationCount, st, TRUE, "none",
          IF outcome.ok
            THEN <<"PlanMade">> \o NumberText(st.iterationCount) \o <<":">> \o plan
            ELSE <<"PlanMadeFallback", ":">> \o plan,
          Len(f.st.searchResults))

\* a generator that makes a result for every term of the plan
generateMockSearchResultsUncut(topic, plan) ==
  The({<<topic \o <<"Progress">>,
         <<"Experts">> \o topic \o <<"Forecast">>,
         topic \o <<"Cases">>,
         topic \o <<"Challenges">>,
         topic \o <<"Market">>,
         topic \o <<"Policy">>>>
       \o [k \in 1..Len(terms) |-> <<"About", QUOTE>> \o Trim(terms[k]) \o <<QUOTE, "Findings">>]
       : terms \in {Split(plan, COMMA)}})

generateMockSearchResults(topic, plan) ==
  LET baseResults ==
        <<topic \o <<"Progress">>,
          <<"Experts">> \o topic \o <<"Forecast">>,
          topic \o <<"Cases">>,
          topic \o <<"Challenges">>,
          topic \o <<"Market">>,
          topic \o <<"Policy">>>>
  IN  The({LET n == IF Len(terms) < 4 THEN Len(terms) ELSE 4
           IN  baseResults
               \o [k \in 1..n |-> <<"About", QUOTE>> \o Trim(terms[k]) \o <<QUOTE, "Findings">>]
           : terms \in {Split(plan, COMMA)}})

searcherTool(f) ==
  IF ~f.ok THEN ToolThrew
  ELSE The({ToolResult(FALSE, TRUE, f.st.iterationCount,
                       [f.st EXCEPT !.searchResults = mockResults], FALSE, "none",
                       <<"Found">> \o NumberText(Len(mockResults)),
                       Len(f.st.searchResults))
            : mockResults \in {generateMockSearchResults(f.st.topic, f.st.plan)}})

\* a Summarizer without the short-circuit on empty searchResults
summarizerToolAlwaysAsks(f, outcome) ==
  IF ~f.ok THEN ToolThrew
  ELSE ToolResult(FALSE, TRUE, f.st.iterationCount,
         [f.st EXCEPT !.summary = IF outcome.ok THEN Trim(outcome.text) ELSE @],
         TRUE, "none", <<"Summarized", NL>>, Len(f.st.searchResults))

summarizerTool(f, outcome) ==
  IF ~f.ok THEN ToolThrew
  ELSE IF Len(f.st.searchResults) = 0
    THEN ToolResult(FALSE, FALSE, f.st.iterationCount, f.st, FALSE, "none",
                    <<"NothingToSummarize">>, 0)
  ELSE
    LET fallbackSummary == Join(f.st.searchResults, <<SP, "|", SP>>)
        updatedSummary ==
          IF f.st.summary # <<>>
            THEN f.st.summary \o <<NL, NL, "NewInfo:", SP>> \o fallbackSummary
            ELSE fallbackSummary
    IN  The({ToolResult(FALSE, TRUE, f.st.iterationCount,
               [f.st EXCEPT !.summary = summary], TRUE, "none",
               (IF outcome.ok THEN <<"Summarized", NL>> ELSE <<"SummarizedFallback">>)
               \o summary,
               Len(f.st.searchResults))
             : summary \in {IF outcome.ok THEN Trim(outcome.text) ELSE updatedSummary}})

\* a cap that lets round MaxRounds ask the model once more
evaluatorCappedAfter(st) == st.iterationCount > MaxRounds

\* whether evaluatorTool answers without asking the model
evaluatorCapped(st) == st.iterationCount >= MaxRounds

\* a decision that looks for "continue" without lower-casing the response
evaluatorDecisionCaseSensitive(st, outcome) ==
  IF evaluatorCapped(st) THEN "finish"
  ELSE IF outcome.ok
    THEN IF Includes(outcome.text, ContinueWord) THEN "continue" ELSE "finish"
  ELSE IF st.iterationCount = 1 THEN "continue" ELSE "finish"

\* a fallback that asks for another round after round 2 as well
evaluatorDecisionRetriesTwice(st, outcome) ==
  IF evaluatorCapped(st) THEN "finish"
  ELSE IF outcome.ok
    THEN IF Includes(ToLowerCase(outcome.text), ContinueWord)
           THEN "continue" ELSE "finish"
  ELSE IF st.iterationCount <= 2 THEN "continue" ELSE "finish"

evaluatorDecision(st, outcome) ==
  IF evaluatorCapped(st) THEN "finish"
  ELSE IF outcome.ok
    THEN IF Includes(ToLowerCase(outcome.text), ContinueWord)
           THEN "continue" ELSE "finish"
  ELSE IF st.iterationCount = 1 THEN "continue" ELSE "finish"

evaluatorTool(f, outcome) ==
  IF ~f.ok THEN ToolThrew
  ELSE The({ToolResult(FALSE, FALSE, f.st.iterationCount, f.st,
                       ~evaluatorCapped(f.st), decision,
                       <<decision, SP, "-", SP, "Reason">>,
                       Len(f.st.searchResults))
            : decision \in {evaluatorDecision(f.st, outcome)}})

fallbackReport(st) ==
  <<"#", SP>> \o st.topic \o <<SP, "-", SP, "Report", NL, NL, "BasedOn", SP>>
  \o NumberText(st.iterationCount) \o <<SP, "Rounds", NL, NL>> \o st.summary

\* a report tool that answers an unreadable input with a report of its own
reportGeneratorToolSurvives(f, outcome) ==
  IF ~f.ok
    THEN ToolResult(FALSE, TRUE, 0,
           [NewResearchState(<<>>) EXCEPT !.report = <<"NoState">>, !.isComplete = TRUE],
           FALSE, "none", <<"ReportDoneFallback", NL>>, 0)
  ELSE ToolResult(FALSE, TRUE, f.st.iterationCount,
         [f.st EXCEPT !.report = Trim(outcome.text), !.isComplete = TRUE], TRUE, "none",
         <<"ReportDone", NL, NL>>, Len(f.st.searchResults))

reportGeneratorTool(f, outcome) ==
  IF ~f.ok THEN ToolThrew
  ELSE The({ToolResult(FALSE, TRUE, f.st.iterationCount,
              [f.st EXCEPT !.report = report, !.isComplete = TRUE], TRUE, "none",
              (IF outcome.ok THEN <<"ReportDone", NL, NL>> ELSE <<"ReportDoneFallback", NL>>)
              \o report,
              Len(f.st.searchResults))
            : report \in {IF outcome.ok THEN Trim(outcome.text) ELSE fallbackReport(f.st)}})

(***************************************************************************)
(* State.                                                                  *)
(***************************************************************************)
VARIABLES
  variant,               \* "graph", "agent" or "codec": which program runs
  gState,                \* graph: the state the StateGraph threads through the nodes
  gNode,                 \* graph: the node to run next
  gStatus,               \* graph: "running", "done", "failed", "recursion_error"
  gSteps,                \* graph: nodes executed so far
  fullState,             \* graph: main's fullState, the last chunk of the stream
  currentResearchState,  \* agent: the process-wide state
  runStatus,             \* agent: per run "idle", "running", "returned", "thrown"
  agentIterations,       \* agent: per run, iterations of its AgentExecutor
  finalState,            \* agent: per run, the finalState runResearch returned
  calls,                 \* graph: invocations of each step so far
  lastStep,              \* the step executed last and what it saw and did
  allContinue,           \* every Evaluator answer so far contained "continue"
  allRejected,           \* scripted agent: every inference call so far rejected
  cPhase, cIn, cBlob, cOut, \* codec: a state, its toString, and fromString of that
  tIn, tTool, tOutcome,  \* tool: a state, the tool handed it, the inference outcome
  tDone,                 \* tool: which of "blob", "wrapper", "node" have been run
  tDirect, tWrapped,     \* tool: what the tool did with the blob, with the wrapper
  tNode                  \* tool: what searcherNode made of the same state

vars ==
  <<variant, gState, gNode, gStatus, gSteps, fullState, currentResearchState,
    runStatus, agentIterations, finalState, calls, lastStep, allContinue,
    allRejected, cPhase, cIn, cBlob, cOut, tIn, tTool, tOutcome, tDone,
    tDirect, tWrapped, tNode>>

graphVars == <<gState, gNode, gStatus, gSteps, fullState>>
agentVars == <<currentResearchState, runStatus, agentIterations, finalState>>
codecVars == <<cPhase, cIn, cBlob, cOut>>
toolVars == <<tIn, tTool, tOutcome, tDone, tDirect, tWrapped, tNode>>

Steps == {"planner", "searcher", "summarizer", "evaluator", "report"}

NoStep ==
  [step |-> "none", run |-> 0, seen |-> 0, asked |-> FALSE, ok |-> TRUE,
   threw |-> FALSE, wrote |-> FALSE, decision |-> "none", blank |-> FALSE,
   text |-> <<>>, results |-> 0]

Step(step, run, seen, asked, ok, threw, wrote, decision, blank, text, results) ==
  [step |-> step, run |-> run, seen |-> seen, asked |-> asked, ok |-> ok,
   threw |-> threw, wrote |-> wrote, decision |-> decision, blank |-> blank,
   text |-> text, results |-> results]

NoChunk == [kind |-> "none", st |-> initialState, label |-> "none"]
StateChunk(st) == [kind |-> "state", st |-> st, label |-> "none"]
LabelChunk(l) == [kind |-> "label", st |-> initialState, label |-> l]

GraphIdle ==
  /\ gState = initialState
  /\ gNode = "planner"
  /\ gStatus = "off"
  /\ gSteps = 0
  /\ fullState = NoChunk

AgentIdle ==
  /\ currentResearchState = NewResearchState(<<>>)
  /\ runStatus = [r \in Runs |-> "off"]
  /\ agentIterations = [r \in Runs |-> 0]
  /\ finalState = [r \in Runs |-> NewResearchState(<<>>)]

CodecIdle ==
  /\ cPhase = "off"
  /\ cIn = NewResearchState(<<>>)
  /\ cBlob = <<>>
  /\ cOut = [ok |-> FALSE, st |-> NewResearchState(<<>>)]

ToolIdle ==
  /\ tIn = NewResearchState(<<>>)
  /\ tTool = "none"
  /\ tOutcome = Failure
  /\ tDone = {}
  /\ tDirect = ToolThrew
  /\ tWrapped = ToolThrew
  /\ tNode = <<>>

Ghosts ==
  /\ calls = [s \in Steps |-> 0]
  /\ lastStep = NoStep
  /\ allContinue = TRUE
  /\ allRejected = TRUE

\* main() of research_graph1.ts up to app.stream(initialState, ...)
InitGraph ==
  /\ variant = "graph"
  /\ gState = initialState
  /\ gNode = "planner"
  /\ gStatus = "running"
  /\ gSteps = 0
  /\ fullState = NoChunk
  /\ AgentIdle /\ CodecIdle /\ ToolIdle /\ Ghosts

\* research_graph.ts loaded, runResearch(researchTopic) about to be called
InitAgent ==
  /\ variant = "agent"
  /\ currentResearchState = NewResearchState(<<>>)
  /\ runStatus = [r \in Runs |-> IF r = 1 THEN "idle" ELSE "off"]
  /\ agentIterations = [r \in Runs |-> 0]
  /\ finalState = [r \in Runs |-> NewResearchState(<<>>)]
  /\ GraphIdle /\ CodecIdle /\ ToolIdle /\ Ghosts

(***************************************************************************)
(* The graph variant's run: app.stream drives the nodes along the edges,   *)
(* one node a step, and main keeps the last chunk in fullState.            *)
(***************************************************************************)
GraphCanRun(node) ==
  /\ variant = "graph"
  /\ gStatus = "running"
  /\ gNode = node
  /\ gSteps < RecursionLimit

GraphKeep == UNCHANGED <<variant, agentVars, codecVars, toolVars, allRejected>>

GraphPlanner ==
  /\ GraphCanRun("planner")
  /\ \E response \in PlanResponses :
       /\ gState' = plannerNode(gState, response)
       /\ lastStep' = Step("planner", 0, gState.iterationCount, TRUE, TRUE,
                           FALSE, TRUE, "none", Trim(response) = <<>>,
                           response, Len(gState.searchResults))
  /\ fullState' = StateChunk(gState')
  /\ gNode' = nextNode("planner", "none")
  /\ gSteps' = gSteps + 1
  /\ calls' = [calls EXCEPT !["planner"] = @ + 1]
  /\ UNCHANGED <<gStatus, allContinue>>
  /\ GraphKeep

GraphSearcher ==
  /\ GraphCanRun("searcher")
  /\ gState' = searcherNode(gState)
  /\ lastStep' = Step("searcher", 0, gState.iterationCount, FALSE, TRUE,
                      FALSE, TRUE, "none", FALSE, <<>>, Len(gState.searchResults))
  /\ fullState' = StateChunk(gState')
  /\ gNode' = nextNode("searcher", "none")
  /\ gSteps' = gSteps + 1
  /\ calls' = [calls EXCEPT !["searcher"] = @ + 1]
  /\ UNCHANGED <<gStatus, allContinue>>
  /\ GraphKeep

GraphSummarizer ==
  /\ GraphCanRun("summarizer")
  /\ \E response \in SummaryResponses :
       /\ gState' = summarizerNode(gState, response)
       /\ lastStep' = Step("summarizer", 0, gState.iterationCount, TRUE, TRUE,
                           FALSE, TRUE, "none", Trim(response) = <<>>,
                           response, Len(gState.searchResults))
  /\ fullState' = StateChunk(gState')
  /\ gNode' = nextNode("summarizer", "none")
  /\ gSteps' = gSteps + 1
  /\ calls' = [calls EXCEPT !["summarizer"] = @ + 1]
  /\ UNCHANGED <<gStatus, allContinue>>
  /\ GraphKeep

\* should_continue returns its label, which the stream hands to main as the chunk
GraphShouldContinue ==
  /\ GraphCanRun("should_continue")
  /\ \E response \in EvalResponses :
       LET decision == shouldContinueNode(gState, response)
           asked == ~shouldContinueCapped(gState)
       IN  /\ gNode' = nextNode("should_continue", decision)
           /\ fullState' = LabelChunk(decision)
           /\ lastStep' = Step("evaluator", 0, gState.iterationCount, asked, TRUE,
                               FALSE, FALSE,
                               IF decision = "continue" THEN "continue" ELSE "finish",
                               FALSE, IF asked THEN response ELSE <<>>, Len(gState.searchResults))
                               /\ allContinue' = (allContinue /\
                (asked => Includes(ToLowerCase(response), ContinueWord)))
  /\ gSteps' = gSteps + 1
  /\ calls' = [calls EXCEPT !["evaluator"] = @ + 1]
  /\ UNCHANGED <<gState, gStatus>>
  /\ GraphKeep

GraphReportWriter ==
  /\ GraphCanRun("report_writer")
  /\ \E response \in ReportResponses :
       /\ gState' = reportWriterNode(gState, response)
       /\ lastStep' = Step("report", 0, gState.iterationCount, TRUE, TRUE,
                           FALSE, TRUE, "none", Trim(response) = <<>>,
                           response, Len(gState.searchResults))
  /\ fullState' = StateChunk(gState')
  /\ gNode' = nextNode("report_writer", "none")
  /\ gStatus' = "done"
  /\ gSteps' = gSteps + 1
  /\ calls' = [calls EXCEPT !["report"] = @ + 1]
  /\ UNCHANGED allContinue
  /\ GraphKeep

GraphStepOf(node) ==
  CASE node = "planner" -> "planner"
    [] node = "summarizer" -> "summarizer"
    [] node = "should_continue" -> "evaluator"
    [] node = "report_writer" -> "report"

\* deepseekChat.invoke rejects inside a node: no node catches it, the stream
\* rejects and main().catch logs the failure
GraphInferenceRejects ==
  /\ \E node \in {"planner", "summarizer", "should_continue", "report_writer"} :
       /\ GraphCanRun(node)
       /\ node = "should_continue" => ~shouldContinueCapped(gState)
       /\ lastStep' = Step(GraphStepOf(node), 0, gState.iterationCount, TRUE, FALSE,
                           TRUE, FALSE, "none", FALSE, <<>>, Len(gState.searchResults))
       /\ calls' = [calls EXCEPT ![GraphStepOf(node)] = @ + 1]
  /\ gStatus' = "failed"
  /\ UNCHANGED <<gState, gNode, gSteps, fullState, allContinue>>
  /\ GraphKeep

\* the run needs another step after recursionLimit steps: GraphRecursionError
GraphRecursionError ==
  /\ variant = "graph"
  /\ gStatus = "running"
  /\ gSteps >= RecursionLimit
  /\ gStatus' = "recursion_error"
  /\ UNCHANGED <<gState, gNode, gSteps, fullState, calls, lastStep, allContinue>>
  /\ GraphKeep

NextGraph ==
  \/ GraphPlanner
  \/ GraphSearcher
  \/ GraphSummarizer
  \/ GraphShouldContinue
  \/ GraphReportWriter
  \/ GraphInferenceRejects
  \/ GraphRecursionError

SpecGraph == InitGraph /\ [][NextGraph]_vars

(***************************************************************************)
(* The agent variant's run: runResearch sets the process-wide state and    *)
(* hands the topic to an AgentExecutor; on each iteration the model behind *)
(* the agent either names a tool and writes the tool's input text, or      *)
(* ends the run.  A tool is modelled at the point where it assigns         *)
(* currentResearchState: between its reading of the input and that point   *)
(* it reads and writes nothing shared.                                     *)
(***************************************************************************)
\* the text of a wrapper object that carries blob under the key "input"
Wrap(blob) == <<"{", QUOTE, "input", QUOTE, ":", SP>> \o JsonString(blob) \o <<"}">>

\* a text that is no JSON
Corrupt == <<"{", QUOTE, "topic">>

\* a JSON text that is no state: an object without any of the state's keys
NotAState == <<"{", "}">>

\* Input texts the agent's model may write: the state as it stands, the state
\* printed in the run's instruction (stale once a tool has run), either of
\* them wrapped, text that does not parse, or JSON that holds no state.
AgentInputs(r) ==
  The({{fresh, ToString(NewResearchState(RunTopic(r))), Wrap(fresh), Corrupt, NotAState}
       : fresh \in {ToString(currentResearchState)}})

ToolCallsSoFar == agentIterations[1] + agentIterations[2]

ToolCallBound == IF runStatus[2] = "off" THEN MaxToolCalls ELSE MaxConcurrentCalls

AgentKeep == UNCHANGED <<variant, graphVars, codecVars, toolVars, allContinue>>

\* async function runResearch(topic), up to researchAgent.invoke
runResearch(r) ==
  /\ variant \in {"agent", "scripted", "replay"}
  /\ runStatus[r] = "idle"
  /\ runStatus' = [runStatus EXCEPT ![r] = "running"]
  /\ currentResearchState' = NewResearchState(RunTopic(r))
  /\ UNCHANGED <<agentIterations, finalState, calls, lastStep, allRejected>>
  /\ AgentKeep

\* run r's executor has an iteration left in which to call a tool
AgentCanCall(r) ==
  /\ variant = "agent"
  /\ runStatus[r] = "running"
  /\ agentIterations[r] < AgentMaxIterations
  /\ ToolCallsSoFar < ToolCallBound

\* the iteration of run r's executor that calls a tool, res being what the
\* tool did with its input under outcome
\* an iteration that writes only the fields the tool's result differs in
\* from the state the tool read
AgentToolStepMerges(r, step, outcome, res) ==
  /\ currentResearchState' =
       IF res.wrote
         THEN [fld \in DOMAIN currentResearchState |->
                 IF fld \in {"plan", "iterationCount", "searchResults", "summary",
                             "report", "isComplete"}
                    /\ (step = "planner" => fld \in {"plan", "iterationCount"})
                    /\ (step = "searcher" => fld = "searchResults")
                    /\ (step = "summarizer" => fld = "summary")
                    /\ (step = "report" => fld \in {"report", "isComplete"})
                   THEN res.st[fld] ELSE currentResearchState[fld]]
         ELSE currentResearchState
  /\ runStatus' = [runStatus EXCEPT ![r] = IF res.threw THEN "thrown" ELSE @]
  /\ agentIterations' = [agentIterations EXCEPT ![r] = @ + 1]
  /\ lastStep' = Step(step, r, res.seen, res.asked, res.asked => outcome.ok,
                      res.threw, res.wrote, res.decision, FALSE, <<>>, res.results)
  /\ UNCHANGED finalState

\* what an iteration that calls a tool does to the agent's variables
AgentToolStep(r, step, outcome, res) ==
  /\ currentResearchState' = IF res.wrote THEN res.st ELSE currentResearchState
  /\ runStatus' = [runStatus EXCEPT ![r] = IF res.threw THEN "thrown" ELSE @]
  /\ agentIterations' = [agentIterations EXCEPT ![r] = @ + 1]
  /\ lastStep' = Step(step, r, res.seen, res.asked, res.asked => outcome.ok,
                      res.threw, res.wrote, res.decision,
                      res.asked /\ outcome.ok /\ Trim(outcome.text) = <<>>,
                      IF res.asked /\ outcome.ok THEN outcome.text ELSE <<>>,
                      res.results)
  /\ UNCHANGED finalState

AgentToolEffect(r, step, outcome, res) ==
  /\ AgentToolStep(r, step, outcome, res)
  /\ AgentKeep

\* a tool call of an agent whose model is free in what it names and writes
AgentToolCall(r, step, outcome, res) ==
  /\ AgentToolEffect(r, step, outcome, res)
  /\ UNCHANGED <<calls, allRejected>>

CallPlanner(r) ==
  /\ AgentCanCall(r)
  /\ \E input \in AgentInputs(r) :
       \E f \in {ReadInput(input)}, outcome \in Outcomes(PlanResponses) :
         \E res \in {plannerTool(f, outcome)} :
           AgentToolCall(r, "planner", outcome, res)

CallSearcher(r) ==
  /\ AgentCanCall(r)
  /\ \E input \in AgentInputs(r) :
       \E f \in {ReadInput(input)} :
         \E res \in {searcherTool(f)} :
           AgentToolCall(r, "searcher", Failure, res)

CallSummarizer(r) ==
  /\ AgentCanCall(r)
  /\ \E input \in AgentInputs(r) :
       \E f \in {ReadInput(input)}, outcome \in Outcomes(SummaryResponses) :
         \E res \in {summarizerTool(f, outcome)} :
           AgentToolCall(r, "summarizer", outcome, res)

CallEvaluator(r) ==
  /\ AgentCanCall(r)
  /\ \E input \in AgentInputs(r) :
       \E f \in {ReadInput(input)}, outcome \in Outcomes(EvalResponses) :
         \E res \in {evaluatorTool(f, outcome)} :
           AgentToolCall(r, "evaluator", outcome, res)

CallReportGenerator(r) ==
  /\ AgentCanCall(r)
  /\ \E input \in AgentInputs(r) :
       \E f \in {ReadInput(input)}, outcome \in Outcomes(ReportResponses) :
         \E res \in {reportGeneratorTool(f, outcome)} :
           AgentToolCall(r, "report", outcome, res)

\* the agent's model ends the run, or maxIterations stops it: invoke resolves
\* and runResearch returns { finalState: currentResearchState, ... }
AgentFinish(r) ==
  /\ variant \in {"agent", "scripted", "replay"}
  /\ runStatus[r] = "running"
  /\ runStatus' = [runStatus EXCEPT ![r] = "returned"]
  /\ finalState' = [finalState EXCEPT ![r] = currentResearchState]
  /\ UNCHANGED <<currentResearchState, agentIterations, calls, lastStep, allRejected>>
  /\ AgentKeep

\* the agent's own inference call rejects: invoke rejects, runResearch rethrows
AgentInferenceRejects(r) ==
  /\ variant = "agent"
  /\ runStatus[r] = "running"
  /\ agentIterations[r] < AgentMaxIterations
  /\ runStatus' = [runStatus EXCEPT ![r] = "thrown"]
  /\ UNCHANGED <<currentResearchState, agentIterations, finalState, calls, lastStep,
                 allRejected>>
  /\ AgentKeep

NextAgent ==
  \E r \in Runs :
    \/ runResearch(r)
    \/ CallPlanner(r)
    \/ CallSearcher(r)
    \/ CallSummarizer(r)
    \/ CallEvaluator(r)
    \/ CallReportGenerator(r)
    \/ AgentFinish(r)
    \/ AgentInferenceRejects(r)

SpecAgent == InitAgent /\ [][NextAgent]_vars

\* two callers have each called runResearch, with different topics
InitConcurrent ==
  /\ variant = "agent"
  /\ currentResearchState = NewResearchState(<<>>)
  /\ runStatus = [r \in Runs |-> "idle"]
  /\ agentIterations = [r \in Runs |-> 0]
  /\ finalState = [r \in Runs |-> NewResearchState(<<>>)]
  /\ GraphIdle /\ CodecIdle /\ ToolIdle /\ Ghosts

SpecConcurrent == InitConcurrent /\ [][NextAgent]_vars

(***************************************************************************)
(* The agent variant driven as its system prompt prescribes: the agent's   *)
(* model names the tools in the order of the workflow, acts on the         *)
(* Evaluator's answer, and hands every tool the state as it stands.        *)
(***************************************************************************)
\* whether step next may follow the step recorded in last
FollowsControlFlow(last, next) ==
  CASE next = "planner" ->
         last.step = "none" \/ (last.step = "evaluator" /\ last.decision = "continue")
    [] next = "searcher" -> last.step = "planner"
    [] next = "summarizer" -> last.step = "searcher"
    [] next = "evaluator" -> last.step = "summarizer"
    [] next = "report" -> last.step = "evaluator" /\ last.decision = "finish"

InitScripted ==
  /\ variant = "scripted"
  /\ currentResearchState = NewResearchState(<<>>)
  /\ runStatus = [r \in Runs |-> IF r = 1 THEN "idle" ELSE "off"]
  /\ agentIterations = [r \in Runs |-> 0]
  /\ finalState = [r \in Runs |-> NewResearchState(<<>>)]
  /\ GraphIdle /\ CodecIdle /\ ToolIdle /\ Ghosts

ScriptedCanCall(step) ==
  /\ variant = "scripted"
  /\ runStatus[1] = "running"
  /\ agentIterations[1] < AgentMaxIterations
  /\ FollowsControlFlow(lastStep, step)

\* the tool reads the state as it stands from the text it is handed
ScriptedRead == The({ReadInput(fresh) : fresh \in {ToString(currentResearchState)}})

ScriptedToolCall(step, outcome, res) ==
  /\ AgentToolEffect(1, step, outcome, res)
  /\ calls' = [calls EXCEPT ![step] = @ + 1]
  /\ allRejected' = (allRejected /\ (res.asked => ~outcome.ok))

ScriptedPlanner ==
  /\ ScriptedCanCall("planner")
  /\ \E f \in {ScriptedRead}, outcome \in Outcomes(PlanResponses) :
       \E res \in {plannerTool(f, outcome)} : ScriptedToolCall("planner", outcome, res)

ScriptedSearcher ==
  /\ ScriptedCanCall("searcher")
  /\ \E f \in {ScriptedRead} :
       \E res \in {searcherTool(f)} : ScriptedToolCall("searcher", Failure, res)

ScriptedSummarizer ==
  /\ ScriptedCanCall("summarizer")
  /\ \E f \in {ScriptedRead}, outcome \in Outcomes(SummaryResponses) :
       \E res \in {summarizerTool(f, outcome)} :
         ScriptedToolCall("summarizer", outcome, res)

ScriptedEvaluator ==
  /\ ScriptedCanCall("evaluator")
  /\ \E f \in {ScriptedRead}, outcome \in Outcomes(EvalResponses) :
       \E res \in {evaluatorTool(f, outcome)} :
         ScriptedToolCall("evaluator", outcome, res)

ScriptedReportGenerator ==
  /\ ScriptedCanCall("report")
  /\ \E f \in {ScriptedRead}, outcome \in Outcomes(ReportResponses) :
       \E res \in {reportGeneratorTool(f, outcome)} :
         ScriptedToolCall("report", outcome, res)

\* the report is written: the agent's model ends the run
ScriptedFinish ==
  /\ variant = "scripted"
  /\ lastStep.step = "report"
  /\ AgentFinish(1)

NextScripted ==
  \/ (variant = "scripted" /\ runResearch(1))
  \/ ScriptedPlanner
  \/ ScriptedSearcher
  \/ ScriptedSummarizer
  \/ ScriptedEvaluator
  \/ ScriptedReportGenerator
  \/ ScriptedFinish

SpecScripted == InitScripted /\ [][NextScripted]_vars

\* either program, run once
InitWorkflow == InitGraph \/ InitAgent

NextWorkflow == NextGraph \/ NextAgent

SpecWorkflow == InitWorkflow /\ [][NextWorkflow]_vars

(***************************************************************************)
(* The codec on its own: toString then fromString of a ResearchState whose *)
(* texts are drawn from the characters JSON treats specially.              *)
(***************************************************************************)
CodecChars == {QUOTE, BSLASH, NL, "n"}
CodecTexts == UNION {[1..k -> CodecChars] : k \in 0..MaxTextLen}

CodecState(text, results, count, complete) ==
  [topic |-> text, plan |-> text \o <<COMMA, "p">>, searchResults |-> results,
   summary |-> <<SP, "s">> \o text, report |-> text \o text,
   iterationCount |-> count, isComplete |-> complete]

InitCodec ==
  /\ variant = "codec"
  /\ cPhase = "input"
  /\ \E text \in CodecTexts, count \in 0..MaxCodecCount, complete \in BOOLEAN :
       \E results \in {<<>>, <<text>>, <<<<"r">> \o text, <<>>>>} :
         cIn = CodecState(text, results, count, complete)
  /\ cBlob = <<>>
  /\ cOut = [ok |-> FALSE, st |-> NewResearchState(<<>>)]
  /\ GraphIdle /\ AgentIdle /\ ToolIdle /\ Ghosts

CodecKeep ==
  UNCHANGED <<variant, graphVars, agentVars, toolVars, calls, lastStep, allContinue,
              allRejected>>

CodecToString ==
  /\ variant = "codec"
  /\ cPhase = "input"
  /\ cBlob' = ToString(cIn)
  /\ cPhase' = "serialized"
  /\ UNCHANGED <<cIn, cOut>>
  /\ CodecKeep

CodecFromString ==
  /\ variant = "codec"
  /\ cPhase = "serialized"
  /\ cOut' = FromString(cBlob)
  /\ cPhase' = "parsed"
  /\ UNCHANGED <<cIn, cBlob>>
  /\ CodecKeep

NextCodec == CodecToString \/ CodecFromString

SpecCodec == InitCodec /\ [][NextCodec]_vars

(***************************************************************************)
(* A tool on its own: one tool is handed the blob of a state, and the same *)
(* blob inside a wrapper object; searcherNode is run on the same plan.     *)
(* The states differ in their plan (up to MaxPlanTerms terms, the empty    *)
(* plan included), their earlier searchResults and their iterationCount.   *)
(***************************************************************************)
PlanTerms == {<<"a">>, <<SP, "b">>}
ToolPlans ==
  {Join(terms, <<COMMA>>) : terms \in UNION {[1..n -> PlanTerms] : n \in 0..MaxPlanTerms}}

EarlierResults == {<<>>, <<<<"old", QUOTE, BSLASH>>>>}

ToolState(plan, results, count) ==
  [NewResearchState(researchTopic) EXCEPT
     !.plan = plan, !.searchResults = results, !.iterationCount = count]

\* the graph variant's state with the same fields
GraphStateOf(st) ==
  [initialState EXCEPT
     !.plan = st.plan, !.searchResults = st.searchResults,
     !.iterationCount = st.iterationCount,
     !.keys = IF st.searchResults = <<>> THEN {} ELSE {"searchResults"}]

\* one answer of the model per tool
ToolResponse(tool) ==
  CASE tool = "planner" -> <<"k3">>
    [] tool = "summarizer" -> <<"S1", NL>>
    [] tool = "evaluator" -> ContinueWord
    [] tool = "report" -> <<"#", SP, "Report", NL>>
    [] OTHER -> <<>>

\* const tools = [plannerTool, searcherTool, ...]: the tool the executor runs
ApplyTool(tool, f, outcome) ==
  CASE tool = "planner" -> plannerTool(f, outcome)
    [] tool = "searcher" -> searcherTool(f)
    [] tool = "summarizer" -> summarizerTool(f, outcome)
    [] tool = "evaluator" -> evaluatorTool(f, outcome)
    [] tool = "report" -> reportGeneratorTool(f, outcome)

InitTool ==
  /\ variant = "tool"
  /\ \E plan \in ToolPlans, results \in EarlierResults, count \in {1, MaxRounds} :
       tIn = ToolState(plan, results, count)
  /\ tTool \in Steps
  /\ tOutcome \in {[ok |-> TRUE, text |-> ToolResponse(tTool)], Failure}
  /\ tDone = {}
  /\ tDirect = ToolThrew
  /\ tWrapped = ToolThrew
  /\ tNode = <<>>
  /\ GraphIdle /\ AgentIdle /\ CodecIdle /\ Ghosts

ToolKeep ==
  UNCHANGED <<variant, graphVars, agentVars, codecVars, calls, lastStep, allContinue,
              allRejected, tIn, tTool, tOutcome>>

\* the tool is handed the state's blob
ToolOnBlob ==
  /\ variant = "tool"
  /\ "blob" \notin tDone
  /\ tDirect' = The({ApplyTool(tTool, f, tOutcome) : f \in {ReadInput(ToString(tIn))}})
  /\ tDone' = tDone \cup {"blob"}
  /\ UNCHANGED <<tWrapped, tNode>>
  /\ ToolKeep

\* the tool is handed a wrapper object that carries the blob under "input"
ToolOnWrapper ==
  /\ variant = "tool"
  /\ "wrapper" \notin tDone
  /\ tWrapped' =
       The({ApplyTool(tTool, f, tOutcome) : f \in {ReadInput(Wrap(ToString(tIn)))}})
  /\ tDone' = tDone \cup {"wrapper"}
  /\ UNCHANGED <<tDirect, tNode>>
  /\ ToolKeep

\* searcherNode is run on the graph variant's state with the same plan
SearcherNodeOnState ==
  /\ variant = "tool"
  /\ tTool = "searcher"
  /\ "node" \notin tDone
  /\ tNode' = searcherNode(GraphStateOf(tIn)).searchResults
  /\ tDone' = tDone \cup {"node"}
  /\ UNCHANGED <<tDirect, tWrapped>>
  /\ ToolKeep

NextTool == ToolOnBlob \/ ToolOnWrapper \/ SearcherNodeOnState

SpecTool == InitTool /\ [][NextTool]_vars

(***************************************************************************)
(* The agent variant with the handed blob on record: the agent's model     *)
(* hands a tool either the state as it stands or the state printed in the  *)
(* run's instruction, and tIn, tTool, tOutcome keep which state, tool and  *)
(* inference outcome the last call had.                                    *)
(***************************************************************************)
InitReplay ==
  /\ variant = "replay"
  /\ currentResearchState = NewResearchState(<<>>)
  /\ runStatus = [r \in Runs |-> IF r = 1 THEN "idle" ELSE "off"]
  /\ agentIterations = [r \in Runs |-> 0]
  /\ finalState = [r \in Runs |-> NewResearchState(<<>>)]
  /\ GraphIdle /\ CodecIdle /\ ToolIdle /\ Ghosts

ReplayCall(tool) ==
  /\ variant = "replay"
  /\ runStatus[1] = "running"
  /\ agentIterations[1] < AgentMaxIterations
  /\ agentIterations[1] < MaxReplayCalls
  /\ \E handed \in {currentResearchState, NewResearchState(RunTopic(1))},
        outcome \in {[ok |-> TRUE, text |-> ToolResponse(tool)], Failure} :
       \E f \in {ReadInput(ToString(handed))} :
         \E res \in {ApplyTool(tool, f, outcome)} :
           /\ AgentToolStep(1, tool, outcome, res)
           /\ tIn' = handed
           /\ tTool' = tool
           /\ tOutcome' = outcome
           /\ calls' = [calls EXCEPT ![tool] = @ + 1]
  /\ UNCHANGED <<variant, graphVars, codecVars, tDone, tDirect, tWrapped, tNode,
                 allContinue, allRejected>>

NextReplay ==
  \/ (variant = "replay" /\ runResearch(1))
  \/ \E tool \in Steps : ReplayCall(tool)
  \/ (variant = "replay" /\ AgentFinish(1))

SpecReplay == InitReplay /\ [][NextReplay]_vars

Init == InitGraph \/ InitAgent \/ InitConcurrent \/ InitCodec \/ InitTool \/ InitScripted
        \/ InitReplay

Next ==
  NextGraph \/ NextAgent \/ NextCodec \/ NextTool \/ NextScripted \/ NextReplay

Spec == Init /\ [][Next]_vars

(***************************************************************************)
(* The claims of the specification, each stated over the runs above.       *)
(***************************************************************************)
\* the graph run has ended without an inference call having rejected
GraphEnded == variant = "graph" /\ gStatus \in {"done", "recursion_error"}

\* C1: for every sequence of Evaluator responses a run terminates, and by
\* the time it has terminated the Planner has been invoked at most 4 times
\* and the ReportWriter exactly once.  (Graph variant, inference working.)
C1_TerminatesWithOneReport ==
  GraphEnded => calls["planner"] <= MaxRounds + 1 /\ calls["report"] = 1

\* C2: whenever the Evaluator runs on a state with iterationCount >= 3 it
\* returns finish, whatever the model would answer; continue is never
\* returned at iterationCount >= 3.  (Both variants: shouldContinueNode and
\* evaluatorTool.)
C2_HardCap ==
  (lastStep.step = "evaluator" /\ ~lastStep.threw /\ lastStep.seen >= MaxRounds)
    => lastStep.decision = "finish"

\* the Evaluator has run on a state at the cap and has answered finish unasked
C2_Witness ==
  /\ lastStep.step = "evaluator"
  /\ lastStep.seen >= MaxRounds
  /\ ~lastStep.asked
  /\ lastStep.decision = "finish"

\* C3: every state a run hands back to its caller as the final result has
\* isComplete = true and a non-empty report; a run that cannot reach such a
\* state ends with an error instead.  (Agent variant: runResearch's finalState.)
C3_ReturnedStateComplete ==
  \A r \in Runs :
    runStatus[r] = "returned"
      => finalState[r].isComplete /\ finalState[r].report # <<>>

\* C4: in every state snapshot observable during a run, for any inference
\* response including an empty or blank one, report is non-empty if and only
\* if isComplete is true.  (Agent variant: the process-wide state.)
C4_ReportIffComplete ==
  variant = "agent"
    => (currentResearchState.report # <<>> <=> currentResearchState.isComplete)

\* C5: the authoritative state's iterationCount never decreases from one step
\* to the next.  (Agent variant: the process-wide state across tool calls.)
C5_CountNeverDecreases ==
  [][currentResearchState'.iterationCount >= currentResearchState.iterationCount]_vars

\* the step that must have run just before step s of a round
Predecessors(s) ==
  CASE s = "planner" -> {"none", "evaluator"}
    [] s = "searcher" -> {"planner"}
    [] s = "summarizer" -> {"searcher"}
    [] s = "evaluator" -> {"summarizer"}
    [] s = "report" -> {"evaluator"}

\* a step of the workflow has just run
StepTaken == gSteps' # gSteps \/ agentIterations' # agentIterations

\* C6: each round runs Planner, Searcher, Summarizer in that order, each
\* once, before the Evaluator runs; no step is skipped, repeated or reordered
\* within a round.
C6_RoundOrder ==
  [][StepTaken => lastStep.step \in Predecessors(lastStep'.step)]_vars

\* C7: when the Evaluator's inference answers continue on every call, a run
\* makes exactly 3 Planner invocations, the third Evaluator invocation is
\* forced to finish, and the ReportWriter is then invoked exactly once with
\* the report produced.  (Graph variant, inference working.)
C7_AllContinue ==
  (GraphEnded /\ allContinue)
    => /\ gStatus = "done"
       /\ calls["planner"] = MaxRounds
       /\ calls["evaluator"] = MaxRounds
       /\ calls["report"] = 1

\* C8: no inference failure in Planner, Summarizer, Evaluator or ReportWriter
\* aborts the run.  (Graph variant.)
C8_InferenceFailureSurvived ==
  (variant = "graph" /\ lastStep.asked /\ ~lastStep.ok) => gStatus \in {"running", "done"}

\* C9: when two runs for different topics execute concurrently, each run's
\* returned final state carries its own topic.
C9_RunsIsolated ==
  \A r \in Runs : runStatus[r] = "returned" => finalState[r].topic = RunTopic(r)

\* C10: for every ResearchState s, fromString(s.toString()) equals s in every
\* field: topic, plan, searchResults, summary, report, iterationCount and
\* isComplete.
C10_RoundTrip ==
  cPhase = "parsed"
    => /\ cOut.ok
       /\ \A f \in {"topic", "plan", "searchResults", "summary", "report",
                    "iterationCount", "isComplete"} : cOut.st[f] = cIn[f]
       /\ cOut.st = cIn

\* a state whose texts hold a backslash and a quote, with two results, a
\* two-digit count and isComplete set, has gone through toString and fromString
C10_Witness ==
  /\ cPhase = "parsed"
  /\ cIn.topic = <<BSLASH, QUOTE>>
  /\ Len(cIn.searchResults) = 2
  /\ cIn.iterationCount = MaxCodecCount
  /\ cIn.isComplete
  /\ cOut.st.topic = <<BSLASH, QUOTE>>

\* C11: when iterationCount < 3 and the inference call succeeds, the
\* Evaluator returns continue if and only if the lower-cased response text
\* contains "continue"; every other response, the empty one included, yields
\* finish.
C11_DecisionFromResponse ==
  (/\ lastStep.step = "evaluator"
   /\ lastStep.seen < MaxRounds
   /\ lastStep.asked
   /\ lastStep.ok)
    => /\ lastStep.decision \in {"continue", "finish"}
       /\ lastStep.decision = "continue"
            <=> Includes(ToLowerCase(lastStep.text), ContinueWord)
       /\ lastStep.text = <<>> => lastStep.decision = "finish"

\* the agent's Evaluator, below the cap, was answered "CONTINUE" in capitals
\* and quotes and has returned continue
C11_Witness ==
  /\ variant = "agent"
  /\ lastStep.step = "evaluator"
  /\ lastStep.seen < MaxRounds
  /\ lastStep.ok
  /\ lastStep.text = <<QUOTE, "C", "O", "N", "T", "I", "N", "U", "E", QUOTE>>
  /\ lastStep.decision = "continue"

\* C12: when iterationCount < 3 and the Evaluator's inference call fails, the
\* Evaluator returns continue exactly when iterationCount = 1 and finish
\* otherwise, and the run is not aborted.
C12_EvaluatorFallback ==
  (lastStep.step = "evaluator" /\ lastStep.asked /\ ~lastStep.ok)
    => /\ gStatus # "failed"
       /\ lastStep.decision = IF lastStep.seen = 1 THEN "continue" ELSE "finish"

\* C13: the topic of the authoritative state never changes after the run's
\* state is constructed, across any sequence of step invocations, steps
\* handed a serialized state included.
C13_TopicNeverChanges ==
  [][runStatus[1] # "idle"
       => currentResearchState'.topic = currentResearchState.topic]_vars

\* the step just taken turned isComplete true, or set a report where none was
CompletesOrSetsReport ==
  \/ ~currentResearchState.isComplete /\ currentResearchState'.isComplete
  \/ currentResearchState.report = <<>> /\ currentResearchState'.report # <<>>
  \/ gState.report = <<>> /\ gState'.report # <<>>
  \/ "report" \notin gState.keys /\ "report" \in gState'.keys

C15_OneRoundRun ==
  (variant = "graph" /\ gStatus = "done"
     /\ (calls["planner"] = 1 \/ calls["evaluator"] = 1))
    => /\ \A s \in Steps : calls[s] = 1
       /\ fullState.kind = "state"
       /\ fullState.st.iterationCount = 1

\* a graph run has ended after one round with the report written
C15_Witness ==
  /\ variant = "graph"
  /\ gStatus = "done"
  /\ calls["evaluator"] = 1
  /\ lastStep.step = "report"
  /\ fullState.st.iterationCount = 1

\* C16: the control state follows PLANNING -> SEARCHING -> SUMMARIZING ->
\* EVALUATING -> (PLANNING | REPORTING) -> DONE: the only way back is from
\* EVALUATING to PLANNING, taken only on continue, and no step runs after
\* the ReportWriter completes.
C16_ControlFlow ==
  [][StepTaken => FollowsControlFlow(lastStep, lastStep'.step)]_vars

\* C17: when the Planner's inference call fails, the Planner still completes:
\* iterationCount is raised by exactly 1 and the workflow proceeds to the
\* Searcher.
C17_PlannerFallback ==
  (variant = "graph" /\ lastStep.step = "planner" /\ ~lastStep.ok)
    => /\ gStatus = "running"
       /\ gNode = "searcher"
       /\ gState.iterationCount = lastStep.seen + 1

\* C18: when the ReportWriter's inference call fails, the step still stores a
\* non-empty fallback report and completes the run.
C18_ReportFallback ==
  (variant = "graph" /\ lastStep.step = "report" /\ ~lastStep.ok)
    => /\ gStatus = "done"
       /\ "report" \in gState.keys
       /\ gState.report # <<>>

\* C19: the Summarizer invoked on a state whose searchResults is empty
\* returns without invoking the Inference Client and leaves the authoritative
\* state unchanged.
C19_EmptyResultsShortCircuit ==
  [][(/\ agentIterations' # agentIterations
      /\ lastStep'.step = "summarizer"
      /\ ~lastStep'.threw
      /\ lastStep'.results = 0)
       => /\ ~lastStep'.asked
          /\ ~lastStep'.wrote
          /\ currentResearchState' = currentResearchState]_vars

\* the Summarizer has run on a state without search results, after a Planner
\* call had written the authoritative state
C19_Witness ==
  /\ variant = "agent"
  /\ lastStep.step = "summarizer"
  /\ ~lastStep.threw
  /\ lastStep.results = 0
  /\ ~lastStep.asked
  /\ currentResearchState.iterationCount > 0

\* the summary ends with the search results joined
SummaryEndsWithResults ==
  \E k \in 0..Len(gState.summary) :
    SubSeq(gState.summary, k + 1, Len(gState.summary))
      = Join(gState.searchResults, <<SP, "|", SP>>)

\* C20: when the Summarizer's inference call fails on non-empty
\* searchResults, the new summary is the previous summary followed by the
\* joined search results, and the run is not aborted.
C20_SummarizerFallback ==
  (variant = "graph" /\ lastStep.step = "summarizer" /\ ~lastStep.ok
     /\ lastStep.results > 0)
    => /\ gStatus = "running"
       /\ gNode = "should_continue"
       /\ SummaryEndsWithResults

\* every term of plan is embedded in some result of results
EveryTermEmbedded(plan, results) ==
  \A term \in {Trim(t) : t \in {Split(plan, COMMA)[k] : k \in 1..Len(Split(plan, COMMA))}} :
    \E j \in 1..Len(results) : Includes(results[j], term)

\* C21: for every plan made of N delimiter-separated terms, the Searcher's
\* result sequence contains, for each of the N terms, a result that embeds
\* that term.
C21_EveryTermEmbedded ==
  (variant = "tool" /\ tTool = "searcher") =>
    /\ "blob" \in tDone =>
         ~tDirect.threw /\ EveryTermEmbedded(tIn.plan, tDirect.st.searchResults)
    /\ "node" \in tDone => EveryTermEmbedded(tIn.plan, tNode)

\* the authoritative state of the running program
Authoritative == IF variant = "graph" THEN gState ELSE currentResearchState

\* C22: after each Searcher invocation searchResults holds exactly the
\* results generated from the current plan in that invocation; no result of
\* an earlier round remains in it.
C22_ResultsReplaced ==
  (lastStep.step = "searcher" /\ ~lastStep.threw) =>
    IF variant = "graph"
      THEN LET terms == Split(gState.plan, COMMA)
           IN  gState.searchResults = [k \in 1..Len(terms) |-> mockResult(Trim(terms[k]))]
      ELSE currentResearchState.searchResults
             = generateMockSearchResults(currentResearchState.topic,
                                         currentResearchState.plan)

\* the Searcher of a second round has run on a state that held two earlier
\* results and has left one
C22_Witness ==
  /\ variant = "graph"
  /\ lastStep.step = "searcher"
  /\ calls["searcher"] = 2
  /\ lastStep.results = 2
  /\ Len(gState.searchResults) = 1

\* the fields a step may change
OwnDelta(step) ==
  CASE step = "planner" -> {"plan", "iterationCount"}
    [] step = "searcher" -> {"searchResults"}
    [] step = "summarizer" -> {"summary"}
    [] step = "report" -> {"report", "isComplete"}
    [] OTHER -> {}

\* C23: each step changes only its own delta and leaves every other field of
\* the state as it was before the step; the Evaluator changes no field.
C23_FrameKept ==
  [][(StepTaken /\ ~lastStep'.threw) =>
       \A fld \in (DOMAIN Authoritative \ {"keys"}) \ OwnDelta(lastStep'.step) :
         Authoritative'[fld] = Authoritative[fld]]_vars

\* C24: every step tool, handed a wrapper object that carries the serialized
\* state under the key input, performs the same state update and returns the
\* same result as when handed that serialized state directly.
C24_WrapperEquivalent ==
  (variant = "tool" /\ {"blob", "wrapper"} \subseteq tDone) => tWrapped = tDirect

\* the Planner has been handed both forms of a state with earlier results
\* and has written the same new plan from each
C24_Witness ==
  /\ variant = "tool"
  /\ {"blob", "wrapper"} \subseteq tDone
  /\ tTool = "planner"
  /\ tIn.searchResults # <<>>
  /\ tWrapped.wrote
  /\ tWrapped.st.plan = <<"k3">>

\* what every tool does with a text that is no JSON
OnCorrupt(tool) == ApplyTool(tool, ReadInput(Corrupt), Failure)

C26_SearcherSucceeds ==
  (variant = "tool" /\ tTool = "searcher") =>
    /\ "blob" \in tDone =>
         /\ ~tDirect.threw
         /\ tDirect.wrote
         /\ Len(tDirect.st.searchResults) >= 1
    /\ "node" \in tDone =>
         /\ Len(tNode) >= 1
         /\ nextNode("searcher", "none") = "summarizer"

\* both Searchers have run on the empty plan
C26_Witness ==
  /\ variant = "tool"
  /\ tTool = "searcher"
  /\ tIn.plan = <<>>
  /\ {"blob", "node"} \subseteq tDone
  /\ tDirect.wrote

\* C27: a run consumed as a stream emits once per completed step, in order,
\* and every emission, the decision step's included, carries the full state
\* as of that point.
C27_EmissionsCarryState ==
  (variant = "graph" /\ gSteps > 0) => fullState = StateChunk(gState)

\* C28: in the graph variant no run permitted by the hard cap reaches the
\* recursion limit of 10 steps; the ceiling error is unreachable.
C28_LimitUnreachable == gStatus # "recursion_error"

\* C29: if every inference call of the step tools fails and the steps are
\* driven in the prescribed order, the Evaluator's fallback yields continue
\* after round 1 and finish after round 2: the run makes exactly 2 Planner
\* invocations before the ReportWriter runs and ends with iterationCount 2.
C29_AllFailTwoRounds ==
  (variant = "scripted" /\ allRejected) =>
    /\ lastStep.step = "evaluator" =>
         lastStep.decision = (IF lastStep.seen = 1 THEN "continue" ELSE "finish")
    /\ lastStep.step = "report" =>
         /\ calls["planner"] = 2
         /\ calls["report"] = 1
         /\ currentResearchState.iterationCount = 2
    /\ runStatus[1] = "returned" => finalState[1].iterationCount = 2

\* a run in which every inference call failed has returned its report
C29_Witness ==
  /\ variant = "scripted"
  /\ allRejected
  /\ runStatus[1] = "returned"
  /\ calls["planner"] = 2
  /\ calls["evaluator"] = 2
  /\ finalState[1].isComplete
  /\ finalState[1].report # <<>>

\* C30: in the graph variant every reachable state has 0 <= iterationCount
\* <= 3; iterationCount is between 1 and 3 whenever the Searcher, Summarizer,
\* Evaluator or ReportWriter runs, and the Planner is never invoked on a
\* state with iterationCount >= 3.
C30_CountInRange ==
  variant = "graph" =>
    /\ gState.iterationCount \in 0..MaxRounds
    /\ lastStep.step \in {"searcher", "summarizer", "evaluator", "report"} =>
         lastStep.seen \in 1..MaxRounds
    /\ lastStep.step = "planner" => lastStep.seen < MaxRounds

\* the Searcher of the third round has run
C30_Witness ==
  /\ variant = "graph"
  /\ lastStep.step = "searcher"
  /\ lastStep.seen = MaxRounds
  /\ calls["planner"] = MaxRounds

\* the number N of comma-separated terms of plan: one more than its commas
TermCount(plan) == Cardinality({k \in 1..Len(plan) : plan[k] = COMMA}) + 1

\* C31: the number of results the Searcher produces depends only on the
\* number N of comma-separated terms of plan, the empty plan counting as one
\* empty term: N in the graph variant, 6 + min(N, 4) in the agent variant and
\* so between 7 and 10 there.
C31_ResultCount ==
  (variant = "tool" /\ tTool = "searcher") =>
    LET N == TermCount(tIn.plan)
    IN  /\ "blob" \in tDone =>
             /\ Len(tDirect.st.searchResults) = 6 + (IF N < 4 THEN N ELSE 4)
             /\ Len(tDirect.st.searchResults) \in 7..10
        /\ "node" \in tDone => Len(tNode) = N

\* both Searchers have run on a plan of five terms
C31_Witness ==
  /\ variant = "tool"
  /\ tTool = "searcher"
  /\ TermCount(tIn.plan) = 5
  /\ {"blob", "node"} \subseteq tDone
  /\ Len(tDirect.st.searchResults) = 10
  /\ Len(tNode) = 5

\* C32: in the agent variant the value a state-writing tool leaves in the
\* process-wide current state is determined solely by the blob it was handed
\* and the inference outcome, whatever the current state was before: a tool
\* handed a stale blob replaces the current state with that stale state plus
\* its own delta.
C32_WrittenFromBlob ==
  (variant = "replay" /\ lastStep.step # "none" /\ lastStep.wrote) =>
    /\ currentResearchState
         = ApplyTool(tTool, ReadInput(ToString(tIn)), tOutcome).st
    /\ \A fld \in DOMAIN tIn \ OwnDelta(tTool) : currentResearchState[fld] = tIn[fld]

\* after the Planner has raised iterationCount to 1, the Searcher is handed
\* the state printed in the instruction and leaves iterationCount 0
C32_Witness ==
  /\ variant = "replay"
  /\ agentIterations[1] = 2
  /\ calls["planner"] = 1
  /\ lastStep.step = "searcher"
  /\ lastStep.wrote
  /\ tIn = NewResearchState(researchTopic)
  /\ currentResearchState.iterationCount = 0
  /\ currentResearchState.plan = <<>>
  /\ Len(currentResearchState.searchResults) = 7

====
